---- MODULE Spec2Model ----
(***************************************************************************)
(* M365-Monitor backend: the shared GraphClient (token cache, authenticated *)
(* GET requests) and the FastAPI endpoints that sequence Graph requests and *)
(* shape the answers.                                                       *)
(*                                                                          *)
(* JSON objects are records; a key that is absent from the object is absent *)
(* from the record's domain.  Python's None is the record None.  Strings    *)
(* that the code inspects character by character are [str |-> <<chars>>].   *)
(* Time is in whole seconds since the epoch.                                *)
(***************************************************************************)
EXTENDS Integers, Sequences, FiniteSets, TLC

VARIABLES
    now,      \* the wall clock, time.time() / datetime.now(timezone.utc)
    token,    \* GraphClient._token
    running,  \* the call that holds the event loop (0: the loop is idle)
    call,     \* the endpoint calls in flight, by call id
    issued,   \* number of access tokens the identity provider has issued
    last      \* record of the most recent _get_token invocation

vars == <<now, token, running, call, issued, last>>

----------------------------------------------------------------------------
(* Bounds of the model *)

NumCalls == 2
MaxTicks == 2
MaxShapeTicks == 1
MaxItems == 2

(* Program constants *)

ExpiryMargin == 60
DefaultExpiresIn == 3599
MinHours == 1
MaxHours == 168
DefaultHours == 24
SecondsPerHour == 3600
WarnNum == 9
WarnDen == 10

None == [none |-> TRUE]

Calls == 1..NumCalls

\* dict.get(key, default)
Get(d, k, default) == IF k \in DOMAIN d THEN d[k] ELSE default

\* Python truthiness of an optional dict: None and {} are falsy
Truthy(d) == d # None /\ DOMAIN d # {}

EmptyDict == [k \in {} |-> 0]

----------------------------------------------------------------------------
(* Token provider: GraphClient._get_token *)

\* line 23 with the margin test weakened to >=
TokenValidAtMargin(tok, t) ==
    /\ Truthy(tok)
    /\ "expires_at" \in DOMAIN tok
    /\ tok.expires_at - t >= ExpiryMargin

\* line 23: the cached token is used when it has more than 60 s left
TokenValid(tok, t) ==
    /\ Truthy(tok)
    /\ "expires_at" \in DOMAIN tok
    /\ tok.expires_at - t > ExpiryMargin

\* line 31 ignoring the reported lifetime
WithExpiryFixed(result, t) ==
    [k \in DOMAIN result \cup {"expires_at"} |->
        IF k = "expires_at" THEN t + DefaultExpiresIn ELSE result[k]]

\* line 31: result["expires_at"] = time.time() + int(result.get("expires_in", 3599))
WithExpiry(result, t) ==
    [k \in DOMAIN result \cup {"expires_at"} |->
        IF k = "expires_at"
        THEN t + Get(result, "expires_in", DefaultExpiresIn)
        ELSE result[k]]

\* lines 25-27: acquire_token_silent first, acquire_token_for_client when it
\* gave nothing
AcquireResult(silent, client) == IF Truthy(silent) THEN silent ELSE client

\* the cache assigned before the access_token test
CacheAfterAcquireEager(tok, result, t) ==
    IF "access_token" \in DOMAIN result THEN WithExpiry(result, t) ELSE result

\* lines 28-32: a result without access_token raises before the cache is
\* touched; otherwise the result, with expires_at, replaces the cache
CacheAfterAcquire(tok, result, t) ==
    IF "access_token" \in DOMAIN result THEN WithExpiry(result, t) ELSE tok

\* _get_token awaiting between the cache test and the acquisition
AfterCheckYield(c) == 0

\* _get_token is a plain (non-async) method: the caller keeps the event loop
\* from the cache test to the return
AfterCheck(c) == c

----------------------------------------------------------------------------
(* API client: GraphClient._get and the Graph wrappers *)

Endpoints == {"health", "licenses", "tenant", "signins"}

\* the Graph resources each endpoint reads, in the order it reads them
Requests(e) ==
    CASE e = "health"   -> <<"healthOverviews", "issues">>
      [] e = "licenses" -> <<"subscribedSkus">>
      [] e = "tenant"   -> <<"organization">>
      [] e = "signins"  -> <<"signIns">>

\* raise_for_status never raising
RaiseForStatusNever(status) == FALSE

\* line 40: r.raise_for_status() raises on a 4xx or 5xx status
RaiseForStatus(status) == status >= 400

\* data.get("value", [])
Unwrap(body) == Get(body, "value", <<>>)

----------------------------------------------------------------------------
(* Strings the code inspects *)

Str(chars) == [str |-> chars]

UpperChars ==
    <<"A","B","C","D","E","F","G","H","I","J","K","L","M",
      "N","O","P","Q","R","S","T","U","V","W","X","Y","Z">>

LowerChars ==
    <<"a","b","c","d","e","f","g","h","i","j","k","l","m",
      "n","o","p","q","r","s","t","u","v","w","x","y","z">>

LowerChar(ch) ==
    IF \E i \in DOMAIN UpperChars : UpperChars[i] = ch
    THEN LowerChars[CHOOSE i \in DOMAIN UpperChars : UpperChars[i] = ch]
    ELSE ch

\* str.lower()
Lower(chars) == [i \in DOMAIN chars |-> LowerChar(chars[i])]

\* (x or ""): None and the empty string both give ""
OrEmpty(s) == IF s = None THEN <<>> ELSE s.str

ServiceRestoredLower ==
    <<"s","e","r","v","i","c","e","r","e","s","t","o","r","e","d">>

----------------------------------------------------------------------------
(* Response shaper: /api/health *)

\* lines 43-44
HealthOverviewOf(s) ==
    [service |-> Get(s, "service", "unknown"),
     status  |-> Get(s, "status", "unknown")]

\* lines 48-57
HealthIssueOf(i) ==
    [id                   |-> Get(i, "id", ""),
     service              |-> Get(i, "service", None),
     title                |-> Get(i, "title", None),
     impactDescription    |-> Get(i, "impactDescription", None),
     classification       |-> Get(i, "classification", None),
     status               |-> Get(i, "status", None),
     startDateTime        |-> Get(i, "startDateTime", None),
     lastModifiedDateTime |-> Get(i, "lastModifiedDateTime", None)]

\* the filter comparing the status as it is spelled
IsOpenExact(x) == OrEmpty(x.status) # ServiceRestoredLower

\* line 60: (x.status or "").lower() != "servicerestored"
IsOpen(x) == Lower(OrEmpty(x.status)) # ServiceRestoredLower

\* lines 42-62
HealthShape(over, issues) ==
    [services   |-> [k \in DOMAIN over |-> HealthOverviewOf(over[k])],
     openIssues |-> SelectSeq([k \in DOMAIN issues |-> HealthIssueOf(issues[k])],
                              IsOpen)]

----------------------------------------------------------------------------
(* Response shaper: /api/licenses *)

Max(a, b) == IF a >= b THEN a ELSE b
Min(a, b) == IF a <= b THEN a ELSE b

WarningText == Str(">=90% genutzt")

\* the threshold test with a strict comparison
NeedsWarningStrict(enabled, consumed) ==
    enabled > 0 /\ consumed * WarnDen > WarnNum * Max(enabled, 1)

\* line 72: enabled > 0 and consumed / max(enabled, 1) >= 0.9, the quotient
\* compared as the fraction consumed/max(enabled,1) against 9/10
NeedsWarning(enabled, consumed) ==
    enabled > 0 /\ consumed * WarnDen >= WarnNum * Max(enabled, 1)

\* lines 69-80
LicenseSkuOf(s) ==
    LET enabled  == Get(Get(s, "prepaidUnits", EmptyDict), "enabled", 0)
        consumed == Get(s, "consumedUnits", 0)
    IN [skuId         |-> Get(s, "skuId", ""),
        skuPartNumber |-> Get(s, "skuPartNumber", ""),
        consumedUnits |-> consumed,
        enabled       |-> enabled,
        warning       |-> IF NeedsWarning(enabled, consumed)
                          THEN WarningText ELSE None]

\* lines 66-81
LicenseShape(skus) == [skus |-> [k \in DOMAIN skus |-> LicenseSkuOf(skus[k])]]

----------------------------------------------------------------------------
(* Response shaper: /api/tenant *)

\* graph_client.py lines 58-59: items[0] if items else {}
FirstOrEmpty(items) == IF Len(items) > 0 THEN items[1] ELSE EmptyDict

\* lines 85-91
TenantShape(items) ==
    LET t == FirstOrEmpty(items)
        named(d) == Get(d, "name", "") # ""
        doms == SelectSeq(Get(t, "verifiedDomains", <<>>), named)
    IN [tenant |->
         [id              |-> Get(t, "id", ""),
          displayName     |-> Get(t, "displayName", None),
          verifiedDomains |-> [k \in DOMAIN doms |-> doms[k].name]]]

----------------------------------------------------------------------------
(* Response shaper: /api/signins *)

\* hours clamped with the upper limit only
ClampHoursUpper(h) == Min(h, MaxHours)

\* line 95: hours = max(1, min(hours, 168))
ClampHours(h) == Max(MinHours, Min(h, MaxHours))

\* An ISO-8601 text of an instant: its first 13 characters "YYYY-MM-DDTHH"
\* (the hour they name, counted from the epoch), the ":MM:SS" that follows,
\* and the zone suffix.
IsoFormat(t) ==
    [hour |-> t \div SecondsPerHour,
     tail |-> <<(t % SecondsPerHour) \div 60, t % 60>>,
     zone |-> "+00:00"]

\* .replace("+00:00", "Z")
ReplaceUtc(s) == [s EXCEPT !.zone = IF @ = "+00:00" THEN "Z" ELSE @]

\* line 98: since.replace(microsecond=0).isoformat().replace("+00:00", "Z")
SinceIso(since) == ReplaceUtc(IsoFormat(since))

\* .replace(minute=0, second=0, microsecond=0)
FloorHour(t) == t - (t % SecondsPerHour)

UnknownKey == [unknown |-> TRUE]

\* line 109: ts[:13] + ":00:00Z" if ts else "unknown"
BucketKey(item) ==
    IF "createdDateTime" \in DOMAIN item /\ item.createdDateTime # None
    THEN [hour |-> item.createdDateTime.hour, tail |-> <<0, 0>>, zone |-> "Z"]
    ELSE UnknownKey

\* lines 107-108: int(status.get("errorCode", 0)) if status else 0
ErrorCode(item) ==
    LET status == Get(item, "status", EmptyDict)
    IN IF Truthy(status) THEN Get(status, "errorCode", 0) ELSE 0

ZeroBucket == [total |-> 0, failed |-> 0]

\* lines 102-116: the counting loop over the first n events
RECURSIVE Bucketize(_, _)
Bucketize(data, n) ==
    IF n = 0
    THEN [buckets |-> [k \in {} |-> ZeroBucket], total |-> 0, failed |-> 0]
    ELSE LET prev == Bucketize(data, n - 1)
             item == data[n]
             key  == BucketKey(item)
             old  == Get(prev.buckets, key, ZeroBucket)
             bad  == IF ErrorCode(item) # 0 THEN 1 ELSE 0
             new  == [total |-> old.total + 1, failed |-> old.failed + bad]
         IN [buckets |-> [k \in DOMAIN prev.buckets \cup {key} |->
                            IF k = key THEN new ELSE prev.buckets[k]],
             total   |-> prev.total + 1,
             failed  |-> prev.failed + bad]

\* the loop stopping before the current hour, "while cur < end"
OrderedBeforeEnd(cur, end, buckets) ==
    LET passes == IF cur < end THEN (end - cur) \div SecondsPerHour ELSE 0
    IN [i \in 1..passes |->
          LET key == ReplaceUtc(IsoFormat(cur + (i - 1) * SecondsPerHour))
              v   == Get(buckets, key, ZeroBucket)
          IN [timestamp |-> key, total |-> v.total, failed |-> v.failed]]

\* lines 119-126: one SignInBucket per pass of the loop "while cur <= end",
\* cur advancing by one hour; pass i sees cur + (i - 1) hours
Ordered(cur, end, buckets) ==
    LET passes == IF cur <= end THEN (end - cur) \div SecondsPerHour + 1 ELSE 0
    IN [i \in 1..passes |->
          LET key == ReplaceUtc(IsoFormat(cur + (i - 1) * SecondsPerHour))
              v   == Get(buckets, key, ZeroBucket)
          IN [timestamp |-> key, total |-> v.total, failed |-> v.failed]]

\* lines 128, 134: round((failed / total) * 100 if total else 0.0, 2), in
\* hundredths of a percent
FailureRate(failed, total) ==
    IF total # 0 THEN (failed * 10000 * 2 + total) \div (2 * total) ELSE 0

\* lines 101-136, run when the Graph answer arrives at time t
SigninsShape(hours, since, data, t) ==
    LET b == Bucketize(data, Len(data))
    IN [windowHours |-> hours,
        total       |-> b.total,
        failed      |-> b.failed,
        failureRate |-> FailureRate(b.failed, b.total),
        buckets     |-> Ordered(FloorHour(since), FloorHour(t), b.buckets)]

----------------------------------------------------------------------------
(* State *)

NoCall ==
    [pc |-> "idle", ep |-> "none", req |-> 0, bearer |-> 0, sent |-> <<>>,
     hoursIn |-> 0, hours |-> 0, started |-> 0, since |-> 0, ended |-> 0,
     status |-> 0, over |-> <<>>, data |-> <<>>,
     response |-> None, error |-> "none"]

NoTokenCall ==
    [caller |-> 0, cached |-> None, checkTime |-> 0, outcome |-> "none",
     silent |-> FALSE, client |-> FALSE, result |-> None,
     returned |-> 0, returnTime |-> 0]

InitAt(t) ==
    /\ now = t
    /\ token = None
    /\ running = 0
    /\ call = [c \in Calls |-> NoCall]
    /\ issued = 0
    /\ last = NoTokenCall

----------------------------------------------------------------------------
(* Operations *)

\* A request for endpoint e arrives; the handler runs up to its first Graph
\* request.  /api/signins clamps hours and fixes since (lines 95-96).
StartCall(c, e, h) ==
    /\ running = 0
    /\ call[c].pc = "idle"
    /\ call' = [call EXCEPT ![c] =
                  [@ EXCEPT !.pc = "token_check", !.ep = e, !.req = 1,
                            !.hoursIn = IF e = "signins" THEN h ELSE 0,
                            !.hours = IF e = "signins" THEN ClampHours(h) ELSE 0,
                            !.started = IF e = "signins" THEN now ELSE 0,
                            !.since = IF e = "signins"
                                      THEN now - ClampHours(h) * SecondsPerHour
                                      ELSE 0]]
    /\ running' = c
    /\ UNCHANGED <<now, token, issued, last>>

\* /api/ping: no Graph request
Ping(c) ==
    /\ running = 0
    /\ call[c].pc = "idle"
    /\ call' = [call EXCEPT ![c] =
                  [@ EXCEPT !.pc = "done", !.ep = "ping",
                            !.response = [ok |-> TRUE, time |-> IsoFormat(now)]]]
    /\ UNCHANGED <<now, token, running, issued, last>>

\* _get_token, line 23: the cache test; a hit returns the cached access_token
TokenCheck(c) ==
    /\ running \in {0, c}
    /\ call[c].pc = "token_check"
    /\ IF TokenValid(token, now)
       THEN /\ call' = [call EXCEPT ![c].pc = "send",
                                    ![c].bearer = token.access_token]
            /\ running' = c
            /\ last' = [NoTokenCall EXCEPT !.caller = c, !.cached = token,
                                           !.checkTime = now, !.outcome = "cached",
                                           !.returned = token.access_token,
                                           !.returnTime = now]
       ELSE /\ call' = [call EXCEPT ![c].pc = "acquire"]
            /\ running' = AfterCheck(c)
            /\ last' = [NoTokenCall EXCEPT !.caller = c, !.cached = token,
                                           !.checkTime = now,
                                           !.outcome = "acquiring"]
    /\ UNCHANGED <<now, token, issued>>

\* _get_token, lines 25-33: the identity provider answers silent, and client
\* when silent gave nothing
TokenAcquire(c, silent, client) ==
    /\ running \in {0, c}
    /\ call[c].pc = "acquire"
    /\ LET result == AcquireResult(silent, client)
           ok == "access_token" \in DOMAIN result
       IN /\ token' = CacheAfterAcquire(token, result, now)
          /\ IF ok
             THEN /\ call' = [call EXCEPT ![c].pc = "send",
                                          ![c].bearer = result.access_token]
                  /\ running' = c
                  /\ issued' = issued + 1
             ELSE /\ call' = [call EXCEPT ![c].pc = "failed",
                                          ![c].error = "token"]
                  /\ running' = 0
                  /\ UNCHANGED issued
          /\ last' = [last EXCEPT !.caller = c,
                                  !.outcome = IF ok THEN "fresh" ELSE "raised",
                                  !.silent = TRUE,
                                  !.client = ~Truthy(silent),
                                  !.result = result,
                                  !.returned = IF ok THEN result.access_token ELSE 0,
                                  !.returnTime = now]
    /\ UNCHANGED now

\* _get, lines 37-39: the GET leaves with the bearer token; the call awaits
Send(c) ==
    /\ running \in {0, c}
    /\ call[c].pc = "send"
    /\ call' = [call EXCEPT
                  ![c].pc = "await",
                  ![c].sent = Append(@, [url |-> Requests(call[c].ep)[call[c].req],
                                         bearer |-> call[c].bearer,
                                         since |-> IF call[c].ep = "signins"
                                                   THEN SinceIso(call[c].since)
                                                   ELSE None])]
    /\ running' = 0
    /\ UNCHANGED <<now, token, issued, last>>

\* _get, lines 39-41, and the rest of the handler: Graph answers with an HTTP
\* status and a JSON body
Respond(c, status, body) ==
    /\ running = 0
    /\ call[c].pc = "await"
    /\ LET k == call[c]
           items == Unwrap(body)
       IN call' = [call EXCEPT ![c] =
            IF RaiseForStatus(status)
            THEN [k EXCEPT !.pc = "failed", !.error = "http", !.status = status]
            ELSE IF k.req < Len(Requests(k.ep))
            THEN [k EXCEPT !.pc = "token_check", !.req = k.req + 1,
                           !.status = status, !.over = items]
            ELSE [k EXCEPT !.pc = "done", !.status = status, !.data = items,
                           !.ended = IF k.ep = "signins" THEN now ELSE 0,
                           !.response =
                    CASE k.ep = "health"   -> HealthShape(k.over, items)
                      [] k.ep = "licenses" -> LicenseShape(items)
                      [] k.ep = "tenant"   -> TenantShape(items)
                      [] k.ep = "signins"  ->
                           SigninsShape(k.hours, k.since, items, now)]]
    /\ UNCHANGED <<now, token, running, issued, last>>

\* the clock advances by d seconds
Tick(d, limit) ==
    /\ now + d <= limit
    /\ now' = now + d
    /\ UNCHANGED <<token, running, call, issued, last>>

----------------------------------------------------------------------------
(* Environment: the identity provider, Graph, the clock, the requests *)

Chars(n) ==
    CASE n = 1 -> <<"s","e","r","v","i","c","e","R","e","s","t","o","r","e","d">>
      [] n = 2 -> ServiceRestoredLower
      [] n = 3 -> <<"S","E","R","V","I","C","E","R","E","S","T","O","R","E","D">>
      [] n = 4 -> <<"i","n","v","e","s","t","i","g","a","t","i","n","g">>

\* lifetimes (seconds) the identity provider reports
ExpiresInValues == {60, 61, 80}

SilentResults(n) ==
    {None, [error |-> "interaction_required"],
     [access_token |-> n, expires_in |-> 61]}

ClientResults(n) ==
    {[error |-> "invalid_client"], [access_token |-> n]}
    \cup {[access_token |-> n, expires_in |-> e] : e \in ExpiresInValues}

StatusCodes == {200, 403}

\* all sequences over S of length at most n
SeqsUpTo(S, n) == UNION {[1..k -> S] : k \in 0..n}

Envelopes(lists) == {[value |-> l] : l \in lists}

OverviewItems ==
    {[service |-> "Exchange", status |-> "serviceOperational"],
     [service |-> "Teams"]}

IssueItems ==
    {[id |-> "MO1"], [id |-> "MO2", status |-> Str(Chars(4))]}
    \cup {[id |-> "MO1", status |-> st] :
            st \in {None} \cup {Str(Chars(n)) : n \in 1..3}}

\* (enabled, consumedUnits) around the 90% threshold
SkuUnits ==
    {<<-1, 5>>, <<0, 5>>, <<1, 0>>, <<1, 1>>, <<10, 8>>, <<10, 9>>,
     <<20, 17>>, <<20, 18>>, <<10, 25>>}

SkuItems ==
    {[skuId |-> "s0", consumedUnits |-> 5],
     [skuId |-> "s1", prepaidUnits |-> EmptyDict, consumedUnits |-> 5],
     [prepaidUnits |-> [enabled |-> 1]]}
    \cup {[skuId |-> "s2", prepaidUnits |-> [enabled |-> p[1]],
           consumedUnits |-> p[2]] : p \in SkuUnits}

OrgItems ==
    {[id |-> "t1", displayName |-> Str("Contoso"),
      verifiedDomains |-> <<[name |-> "contoso.com"], [name |-> ""],
                            [name |-> "contoso.onmicrosoft.com"]>>],
     [id |-> "t2"]}

\* sign-in events around the window of call c: in the hour before since, the
\* hour of since and the current hour; with and without createdDateTime and
\* status
EventItems(c) ==
    LET stamp(h) == [hour |-> h, tail |-> <<23, 45>>, zone |-> "Z"]
        first == call[c].since \div SecondsPerHour
        cur == now \div SecondsPerHour
    IN {EmptyDict,
        [createdDateTime |-> None, status |-> [errorCode |-> 50126]],
        [createdDateTime |-> stamp(first - 1), status |-> [errorCode |-> 0]],
        [createdDateTime |-> stamp(first), status |-> [errorCode |-> 50126]],
        [createdDateTime |-> stamp(cur)],
        [createdDateTime |-> stamp(cur), status |-> [errorCode |-> 0]],
        [createdDateTime |-> stamp(cur), status |-> [errorCode |-> 50126]]}

ItemsFor(url, c) ==
    CASE url = "healthOverviews" -> OverviewItems
      [] url = "issues"          -> IssueItems
      [] url = "subscribedSkus"  -> SkuItems
      [] url = "organization"    -> OrgItems
      [] url = "signIns"         -> EventItems(c)

\* the bodies Graph may answer the awaited request of call c with
Bodies(c, n) ==
    IF call[c].pc = "await"
    THEN {EmptyDict} \cup
         Envelopes(SeqsUpTo(ItemsFor(Requests(call[c].ep)[call[c].req], c), n))
    ELSE {}

HoursInputs == {-3, 0, 1, 2, MaxHours + 1, 100000}

\* the clock is observed every 20 seconds
TickSeconds == 20

\* ten seconds before the end of an hour
ShapeStart == 200 * SecondsPerHour + 3590

----------------------------------------------------------------------------
(* Specifications *)

Init == InitAt(0)

\* calls are numbered in the order they arrive
NextToArrive(c) == IF c = 1 THEN TRUE ELSE call[c - 1].pc # "idle"

\* concurrent calls on the shared client
Next ==
    \/ \E c \in Calls, e \in {"licenses", "tenant"} :
         NextToArrive(c) /\ StartCall(c, e, DefaultHours)
    \/ \E c \in Calls : TokenCheck(c)
    \/ \E c \in Calls : \E silent \in SilentResults(issued + 1) :
         \E client \in IF Truthy(silent) THEN {None}
                       ELSE ClientResults(issued + 1) :
            TokenAcquire(c, silent, client)
    \/ \E c \in Calls : Send(c)
    \/ \E c \in Calls, status \in StatusCodes : \E body \in Bodies(c, 0) :
         Respond(c, status, body)
    \/ Tick(TickSeconds, MaxTicks * TickSeconds)

Spec == Init /\ [][Next]_vars

InitShape == InitAt(ShapeStart)

\* one call, every Graph answer of up to MaxItems items
NextShape ==
    \/ \E e \in Endpoints, h \in HoursInputs : StartCall(1, e, h)
    \/ Ping(1)
    \/ TokenCheck(1)
    \/ TokenAcquire(1, None, [access_token |-> issued + 1])
    \/ Send(1)
    \/ \E status \in StatusCodes : \E body \in Bodies(1, MaxItems) :
         Respond(1, status, body)
    \/ Tick(TickSeconds, ShapeStart + MaxShapeTicks * TickSeconds)

SpecShape == InitShape /\ [][NextShape]_vars

----------------------------------------------------------------------------
(* Claims about the token provider and the shared client, under Spec *)

\* the claim's condition for going to the identity provider
NeedsRefresh(cached, t) ==
    cached = None \/ cached.expires_at - t <= 60

\* C1: _get_token goes to the identity provider (acquire_token_silent, then
\* acquire_token_for_client) exactly when there is no cached token or the
\* cached token's expires_at is 60 seconds or less ahead of the clock; with
\* more than 60 seconds left it returns the cached access_token and leaves
\* the cache as it was.
C1_ContactIffNearExpiry ==
    /\ last.outcome \in {"acquiring", "fresh", "raised"}
         => NeedsRefresh(last.cached, last.checkTime)
    /\ last.outcome \in {"fresh", "raised"} => last.silent
    /\ last.outcome = "cached"
         => /\ ~NeedsRefresh(last.cached, last.checkTime)
            /\ ~last.silent /\ ~last.client
            /\ last.returned = last.cached.access_token
            /\ token = last.cached

\* a cached token with exactly 60 seconds left was replaced by a fresh one
C1_Witness ==
    /\ last.outcome = "fresh"
    /\ last.cached # None
    /\ last.cached.expires_at - last.checkTime = 60
    /\ token # last.cached

\* C8: a GET leaves with the bearer token _get_token returned to the same
\* call; when the acquisition result has no access_token, _get_token raises,
\* the call sends no Graph request, and the cache keeps what it held.
C8_BearerFromGetToken ==
    /\ \A c \in Calls :
         /\ call[c].pc = "send"
              => /\ last.caller = c
                 /\ last.outcome \in {"cached", "fresh"}
                 /\ call[c].bearer = last.returned
         /\ \A i \in DOMAIN call[c].sent :
              /\ call[c].sent[i].bearer \in 1..issued
              /\ i = Len(call[c].sent) => call[c].sent[i].bearer = call[c].bearer
         /\ call[c].error = "token"
              => /\ call[c].pc = "failed"
                 /\ Len(call[c].sent) = call[c].req - 1
                 /\ call[c].response = None
    /\ last.outcome = "raised"
         => /\ "access_token" \notin DOMAIN last.result
            /\ call[last.caller].error = "token"
            /\ token = last.cached

\* an acquisition failed while a token was cached
C8_Witness ==
    /\ last.outcome = "raised"
    /\ last.cached # None
    /\ call[last.caller].pc = "failed"
    /\ call[last.caller].sent = <<>>

InGetToken == {c \in Calls : call[c].pc = "acquire"}

\* C9: with several calls in flight, the cache test and the acquisition of
\* one call are not interleaved with another's: at most one call is between
\* its cache test and its acquisition, and it holds the event loop; no call
\* is acquiring while a cached token with more than 60 seconds left exists;
\* the cache holds nothing or a result with access_token and expires_at.
C9_TokenSectionAtomic ==
    /\ Cardinality(InGetToken) <= 1
    /\ \A c \in InGetToken :
         /\ running = c
         /\ token = last.cached
         /\ ~(token # None /\ token.expires_at - now > 60)
    /\ token = None \/ {"access_token", "expires_at"} \subseteq DOMAIN token

\* one call is acquiring while another call's request is in flight
C9_Witness ==
    \E c, d \in Calls :
        /\ call[c].pc = "acquire"
        /\ call[d].pc = "await"
        /\ token # None

\* C10 as stated: every access token _get_token returns, cached or fresh, has
\* more than 60 seconds left at that moment.
C10_Original ==
    /\ last.outcome = "cached" => last.cached.expires_at - last.returnTime > 60
    /\ last.outcome = "fresh" => token.expires_at - last.returnTime > 60

\* C10: a token returned from the cache has more than 60 seconds left; a
\* freshly acquired token is returned with exactly the reported expires_in
\* (3599 when none is reported) seconds left, whatever that value is.
C10_CachedAboveMargin ==
    /\ last.outcome = "cached" => last.cached.expires_at - last.returnTime > 60
    /\ last.outcome = "fresh"
         => /\ token.access_token = last.returned
            /\ token.expires_at - last.returnTime =
                 IF "expires_in" \in DOMAIN last.result
                 THEN last.result.expires_in ELSE 3599

\* a fresh token reported with 60 seconds of life was returned
C10_Witness ==
    /\ last.outcome = "fresh"
    /\ "expires_in" \in DOMAIN last.result
    /\ last.result.expires_in = 60
    /\ token.expires_at - last.returnTime = 60

----------------------------------------------------------------------------
(* Claims about the endpoints' answers, under SpecShape *)

\* C5: nothing is retried: the Graph requests of a call are its endpoint's
\* requests, in order, each at most once; an HTTP error status ends the call
\* failed with no shaped response, the failing request being the last one it
\* sent (/api/health never asks for the issues after healthOverviews failed).
C5_NoRetryErrorPropagates ==
    \A c \in Calls :
      LET k == call[c] IN
        /\ k.ep \in Endpoints
             => /\ Len(k.sent) <= Len(Requests(k.ep))
                /\ \A i \in DOMAIN k.sent : k.sent[i].url = Requests(k.ep)[i]
        /\ k.status >= 400
             => /\ k.pc = "failed"
                /\ k.error = "http"
                /\ k.response = None
                /\ Len(k.sent) = k.req
        /\ k.pc = "done" /\ k.ep \in Endpoints
             => Len(k.sent) = Len(Requests(k.ep))

\* /api/health failed on healthOverviews and sent nothing more
C5_Witness ==
    /\ call[1].ep = "health"
    /\ call[1].status = 403
    /\ call[1].pc = "failed"
    /\ Len(call[1].sent) = 1
    /\ call[1].sent[1].url = "healthOverviews"

UpperOf(ch) ==
    IF \E i \in DOMAIN LowerChars : LowerChars[i] = ch
    THEN UpperChars[CHOOSE i \in DOMAIN LowerChars : LowerChars[i] = ch]
    ELSE ch

\* the issue's status is "servicerestored" in some mix of upper and lower case
Restored(issue) ==
    /\ "status" \in DOMAIN issue
    /\ issue.status # None
    /\ Len(issue.status.str) = Len(ServiceRestoredLower)
    /\ \A i \in DOMAIN ServiceRestoredLower :
         issue.status.str[i] \in
            {ServiceRestoredLower[i], UpperOf(ServiceRestoredLower[i])}

\* C6: openIssues holds exactly the issues Graph returned whose status is not
\* "servicerestored" in any letter case (a missing or null status is kept),
\* in Graph's order; services has one entry per overview, in order,
\* unfiltered.
C6_OpenIssuesFilter ==
    LET k == call[1]
        kept == {i \in DOMAIN k.data : ~Restored(k.data[i])}
        place(i) == 1 + Cardinality({j \in kept : j < i})
    IN k.ep = "health" /\ k.pc = "done"
         => /\ Len(k.response.openIssues) = Cardinality(kept)
            /\ \A i \in kept :
                 /\ k.response.openIssues[place(i)].id = Get(k.data[i], "id", "")
                 /\ k.response.openIssues[place(i)].status
                       = Get(k.data[i], "status", None)
            /\ Len(k.response.services) = Len(k.over)
            /\ \A i \in DOMAIN k.over :
                 k.response.services[i].service
                    = Get(k.over[i], "service", "unknown")

\* an upper-case SERVICERESTORED issue was dropped, the issue after it kept,
\* and two overviews are listed
C6_Witness ==
    LET k == call[1] IN
    /\ k.ep = "health" /\ k.pc = "done"
    /\ Len(k.data) = 2
    /\ Restored(k.data[1]) /\ k.data[1].status.str # ServiceRestoredLower
    /\ Len(k.response.openIssues) = 1
    /\ k.response.openIssues[1].id = "MO2"
    /\ Len(k.response.services) = 2

RawEnabled(sku) ==
    IF "prepaidUnits" \in DOMAIN sku /\ "enabled" \in DOMAIN sku.prepaidUnits
    THEN sku.prepaidUnits.enabled ELSE 0

\* C4: a SKU's warning is set exactly when enabled > 0 and
\* consumedUnits * 10 >= enabled * 9, so it is null for enabled <= 0 (also
\* without prepaidUnits) and below 90%; the answer has one entry per SKU
\* Graph returned, in the same order.
C4_WarningAtNinetyPercent ==
    LET k == call[1] IN
    k.ep = "licenses" /\ k.pc = "done"
      => /\ Len(k.response.skus) = Len(k.data)
         /\ \A i \in DOMAIN k.data :
              LET out == k.response.skus[i]
                  e == RawEnabled(k.data[i])
                  u == IF "consumedUnits" \in DOMAIN k.data[i]
                       THEN k.data[i].consumedUnits ELSE 0
              IN /\ "skuId" \in DOMAIN k.data[i] => out.skuId = k.data[i].skuId
                 /\ out.enabled = e /\ out.consumedUnits = u
                 /\ (out.warning # None) <=> (e > 0 /\ u * 10 >= e * 9)
                 /\ out.warning \in {None, WarningText}

\* a SKU at exactly 90% carries the warning, one without prepaidUnits none
C4_Witness ==
    LET k == call[1] IN
    /\ k.ep = "licenses" /\ k.pc = "done"
    /\ Len(k.data) = 2
    /\ "prepaidUnits" \notin DOMAIN k.data[1]
    /\ k.response.skus[1].warning = None
    /\ RawEnabled(k.data[2]) = 10 /\ k.data[2].consumedUnits = 9
    /\ k.response.skus[2].warning = WarningText

\* C3: whatever integer hours is, the window used and windowHours lie in
\* 1..168: below 1 gives 1, above 168 gives 168, otherwise hours itself.
C3_HoursClamped ==
    LET k == call[1]
        want == IF k.hoursIn < 1 THEN 1
                ELSE IF k.hoursIn > 168 THEN 168 ELSE k.hoursIn
    IN k.ep = "signins"
         => /\ k.hours \in 1..168
            /\ k.hours = want
            /\ k.since = k.started - want * 3600
            /\ k.pc = "done" => k.response.windowHours = want

\* hours = -3 answered with windowHours = 1
C3_Witness ==
    /\ call[1].ep = "signins" /\ call[1].pc = "done"
    /\ call[1].hoursIn = -3
    /\ call[1].response.windowHours = 1

EventsInHour(data, h) ==
    {i \in DOMAIN data :
        /\ "createdDateTime" \in DOMAIN data[i]
        /\ data[i].createdDateTime # None
        /\ data[i].createdDateTime.hour = h}

\* C2: buckets has one bucket for every whole UTC hour from the hour holding
\* (request time - windowHours) through the hour holding the time of the
\* answer, ascending, one hour apart; an hour without sign-in events is
\* listed with total = 0 and failed = 0.
C2_EveryHourOnce ==
    LET k == call[1]
        first == (k.started - k.hours * 3600) \div 3600
        final == k.ended \div 3600
        b == k.response.buckets
    IN k.ep = "signins" /\ k.pc = "done"
         => /\ Len(b) = final - first + 1
            /\ \A i \in DOMAIN b :
                 /\ b[i].timestamp =
                      [hour |-> first + i - 1, tail |-> <<0, 0>>, zone |-> "Z"]
                 /\ EventsInHour(k.data, first + i - 1) = {}
                      => b[i].total = 0 /\ b[i].failed = 0

\* the answer arrived in the hour after the request: hours + 2 buckets, the
\* last one counting an event, the first one empty
C2_Witness ==
    LET k == call[1] IN
    /\ k.ep = "signins" /\ k.pc = "done"
    /\ k.hours = 2
    /\ k.ended \div 3600 = k.started \div 3600 + 1
    /\ Len(k.response.buckets) = 4
    /\ k.response.buckets[4].total = 1
    /\ k.response.buckets[1].total = 0

RECURSIVE SumOver(_, _, _)
SumOver(b, S, field) ==
    IF S = {} THEN 0
    ELSE LET i == CHOOSE j \in S : TRUE
         IN b[i][field] + SumOver(b, S \ {i}, field)

Counted(b, field) == SumOver(b, {i \in DOMAIN b : b[i][field] # 0}, field)

\* C7 as stated: every event Graph returned is counted in exactly one listed
\* bucket: the buckets' totals add up to total and their failed counts to
\* failed, for any event list.
C7_BucketsSumToTotals ==
    LET k == call[1] IN
    k.ep = "signins" /\ k.pc = "done"
      => /\ Counted(k.response.buckets, "total") = k.response.total
         /\ Counted(k.response.buckets, "failed") = k.response.failed

====
